---- MODULE Spec2Model ----
(***************************************************************************)
(* A model of the NeuroKit utility functions ecg_rsa (with its helper      *)
(* _ecg_rsa_cycles), hdi, complexity_r and signal_power.                   *)
(*                                                                         *)
(* Each function is a single synchronous call.  A call is modelled as a    *)
(* short chain of steps (one per stage of the function body); the inputs   *)
(* of the call are chosen in the initial state.                            *)
(*                                                                         *)
(* Conventions                                                             *)
(*  - sample indices are zero-based, as in numpy; TLA+ sequences are       *)
(*    one-based, so sample i of an array a is a[i + 1];                    *)
(*  - real numbers are exact rationals [nan, num, den]; floating-point     *)
(*    rounding is not modelled;                                            *)
(*  - numeric collaborators that live outside the modelled files           *)
(*    (signal_resample, signal_filter, signal_psd, entropy_approximate,    *)
(*    variance, logarithm) are recorded by the arguments they are called   *)
(*    with; they are taken to succeed and their numeric results are        *)
(*    symbolic.  Of a resampled or filtered signal only the number of      *)
(*    samples is kept, since the epochs of ecg_rsa depend on it.           *)
(***************************************************************************)
EXTENDS Integers, Sequences, FiniteSets, TLC

\* ------------------------------------------------------------------ bounds

\* Largest number of rows of a signal table filled with arbitrary phase data.
MaxLen == 4

\* Largest number of rows of a signal table whose phase columns are regular
\* (the completion restarts at 0 exactly where the phase label changes).
MaxLenRegular == 6

\* Largest number of rows of a signal table with unusual columns or call form.
MaxLenOther == 2

\* Largest number of rows of a long recording (long enough for the resampled
\* heart-rate signal of the Porges-Bohrer method to hold two samples).
MaxLenLong == 100

\* Largest length of the sample x passed to hdi.
MaxN == 5

\* The probability ci passed to hdi is a multiple of 1/CiDen (with CiDen = 8
\* the product ci * len(x) is exact in binary floating point).
CiDen == 8

\* Largest length of the signal passed to complexity_r and signal_power.
MaxSignalLen == 2

\* ------------------------------------------------------------ input domains

\* Values of the elements of a sample or signal.
Values == 0..3

\* The sorted sample of the worked example: six points in two clusters.
ExampleSample == <<12, 1, 11, 2, 10, 3>>

\* The method argument of complexity_r.
Methods == {"traditional", "maxApEn", "optimize", "fnn"}

\* Forms of the frequency_band argument of signal_power.
BandForms == {"int_pair", "float_pair", "list_of_pairs"}

\* Phase labels of a respiration sample: inspiration = 1, expiration = 0.
Labels == {0, 1}

\* Phase completion of a sample, in tenths: 0 at the start of a phase.
Completions == {0, 5}

\* Sampling rates (Hz) a caller may pass; 1000 is the default of ecg_rsa.
SamplingRates == {100, 1000}

\* Column names, as sequences of name fragments, so that the substring test
\* `'RSP_Phase' in col` has something to look into.
COL_RSP_Phase == <<"RSP_Phase">>
COL_RSP_PhaseCompletion == <<"RSP_Phase", "Completion">>
COL_RSP_PhaseSmoothed == <<"RSP_Phase", "_Smoothed">>
COL_ECG_Rate == <<"ECG_Rate">>
COL_ECG_RateMean == <<"ECG_Rate", "_Mean">>

ColumnNames ==
    {COL_RSP_Phase, COL_RSP_PhaseCompletion, COL_RSP_PhaseSmoothed,
     COL_ECG_Rate, COL_ECG_RateMean}

\* The columns bio_process() produces that ecg_rsa reads.
UsualColumns == {COL_RSP_Phase, COL_RSP_PhaseCompletion, COL_ECG_Rate}

\* ------------------------------------------------------------------- state

VARIABLES
    pc,               \* position of the call
    fn,               \* the function called
    inKind,           \* ecg_rsa: form of `signals`: "DataFrame" or "tuple"
    columns,          \* ecg_rsa: column names of the signal table
    phase,            \* ecg_rsa: column RSP_Phase (<<>> when absent)
    completion,       \* ecg_rsa: column RSP_PhaseCompletion (<<>> when absent)
    rpeaksGiven,      \* ecg_rsa: FALSE when rpeaks is left at None
    rpeaks,           \* ecg_rsa: rpeaks["ECG_R_Peaks"], increasing sample indices
    sampling_rate,    \* ecg_rsa: the sampling_rate argument
    rsp_onsets,       \* ecg_rsa: local rsp_onsets
    expiration_onsets,\* ecg_rsa: rsp_cycles["RSP_Expiration_Onsets"]
    rsp_cycle_center, \* ecg_rsa: local rsp_cycle_center
    warned,           \* ecg_rsa: the alignment message was printed
    cycles_rri,       \* ecg_rsa: local cycles_rri
    rsa,              \* ecg_rsa: local dict rsa
    calls,            \* ecg_rsa: stages of the Porges-Bohrer pipeline, in order
    epochs,           \* ecg_rsa: local epochs, as the number of rows of each
    x,                \* hdi, complexity_r, signal_power: the caller's array
    x_at_call,        \* the contents of that array when the call was made
    args,             \* hdi, complexity_r, signal_power: the other arguments
    figures,          \* number of figures drawn so far
    ApEn,             \* complexity_r: the array ApEn of _optimize_r
    r_evaluated,      \* complexity_r: the r passed to entropy_approximate, in order
    ret,              \* the value returned
    outcome           \* "none", "returned" or the exception raised

vars ==
    <<pc, fn, inKind, columns, phase, completion, rpeaksGiven, rpeaks,
      sampling_rate, rsp_onsets, expiration_onsets, rsp_cycle_center, warned,
      cycles_rri, rsa, calls, epochs, x, x_at_call, args, figures, ApEn,
      r_evaluated, ret, outcome>>

\* The variables of a call of ecg_rsa, and those of the other calls.
ecgVars ==
    <<inKind, columns, phase, completion, rpeaksGiven, rpeaks, sampling_rate,
      rsp_onsets, expiration_onsets, rsp_cycle_center, warned, cycles_rri,
      rsa, calls, epochs>>

callVars == <<x, x_at_call, args, figures, ApEn, r_evaluated, ret>>

\* ------------------------------------------------------- sequence helpers

\* numpy.sort / ndarray.sort: the elements of s in ascending order.  The
\* element at position i goes to the position given by the number of elements
\* that come before it (the smaller ones, and the equal ones to its left).
\* (Appending the empty sequence makes the result an explicit tuple.)
Sort(s) ==
    LET rank == [i \in 1..Len(s) |->
                   Cardinality({j \in 1..Len(s) :
                                   s[j] < s[i] \/ (s[j] = s[i] /\ j < i)}) + 1]
                   \o <<>>
    IN [k \in 1..Len(s) |-> s[CHOOSE i \in 1..Len(s) : rank[i] = k]] \o <<>>

\* numpy.diff: differences of consecutive elements.
Diff(s) ==
    IF Len(s) < 2 THEN <<>>
    ELSE [i \in 1..(Len(s) - 1) |-> s[i + 1] - s[i]]

\* numpy.max / numpy.min of a non-empty sequence.
SeqMax(s) == CHOOSE v \in {s[i] : i \in 1..Len(s)} :
                 \A j \in 1..Len(s) : s[j] <= v

SeqMin(s) == CHOOSE v \in {s[i] : i \in 1..Len(s)} :
                 \A j \in 1..Len(s) : v <= s[j]

\* The elements of a finite set of integers in ascending order.
RECURSIVE SetToSeq(_)
SetToSeq(S) ==
    IF S = {} THEN <<>>
    ELSE LET m == CHOOSE v \in S : \A w \in S : v <= w
         IN <<m>> \o SetToSeq(S \ {m})

\* The set of elements of a sequence.
Range(s) == {s[i] : i \in 1..Len(s)}

\* ------------------------------------------------------------ real numbers

NaN == [nan |-> TRUE, num |-> 0, den |-> 1]

Rat(n, d) == [nan |-> FALSE, num |-> n, den |-> d]

\* ----------------------------------------------------- _ecg_rsa_cycles

\* numpy.where(a == v)[0]: the zero-based indices i with a[i] = v, ascending.
Where(a, v) == SelectSeq([i \in 1..Len(a) |-> i - 1], LAMBDA i : a[i + 1] = v)

\* A variant of intersect1d that forgets the second array.
Intersect1dFirstOnly(ar1, ar2) == Sort(ar1)

\* numpy.intersect1d(ar1, ar2, assume_unique=True): the two arrays are
\* concatenated and sorted, and an element is kept when it equals its
\* successor.
Intersect1d(ar1, ar2) ==
    LET aux == Sort(ar1 \o ar2)
        idx == SelectSeq([i \in 1..Len(aux) |-> i],
                         LAMBDA i : i < Len(aux) /\ aux[i] = aux[i + 1])
    IN [k \in 1..Len(idx) |-> aux[idx[k]]]

InspirationOnsets(ph, co) == Intersect1d(Where(ph, 1), Where(co, 0))

ExpirationOnsets(ph, co) == Intersect1d(Where(ph, 0), Where(co, 0))

\* The dict _ecg_rsa_cycles returns.
EcgRsaCycles(ph, co) ==
    [RSP_Inspiration_Onsets |-> InspirationOnsets(ph, co),
     RSP_Expiration_Onsets |-> ExpirationOnsets(ph, co),
     RSP_Cycles_Length |-> Diff(InspirationOnsets(ph, co))]

\* ------------------------------------------------------------- ecg_rsa

\* `pat in col` for a column name col.
NameContains(col, pat) == \E i \in 1..Len(col) : col[i] = pat

\* [col for col in signals.columns if pat in col]
ColsContaining(cols, pat) == {c \in cols : NameContains(c, pat)}

\* np.array(rsp_cycle_center)[rsp_cycle_center > rsp_onsets[0]]
FilterCenters(exps, onsets) == SelectSeq(exps, LAMBDA e : e > onsets[1])

\* rsp_cycle_center[:-1]
DropLast(s) == SubSeq(s, 1, Len(s) - 1)

\* A variant of the adjustment that drops the first center instead.
AlignCentersDropFirst(centers, onsets) ==
    IF Len(centers) - Len(onsets) = 0 THEN Tail(centers) ELSE centers

\* The length-equality adjustment of the cycle centers.
AlignCenters(centers, onsets) ==
    IF Len(centers) - Len(onsets) = 0 THEN DropLast(centers) ELSE centers

\* The condition under which the alignment message is printed.
AlignmentUnclean(centers, onsets) == Len(centers) - Len(onsets) # -1

\* A variant of the selection that includes the R-peak at cycle_end.
PeaksInCycleClosed(pk, cycle_init, cycle_end) ==
    SelectSeq(pk, LAMBDA p : p >= cycle_init /\ p <= cycle_end)

\* rpeaks[np.logical_and(rpeaks >= cycle_init, rpeaks < cycle_end)]
PeaksInCycle(pk, cycle_init, cycle_end) ==
    SelectSeq(pk, LAMBDA p : p >= cycle_init /\ p < cycle_end)

\* The list cycles_rri: the R-peaks of each pair of consecutive onsets.
CyclesRri(pk, onsets) ==
    IF Len(onsets) < 2 THEN <<>>
    ELSE [idx \in 1..(Len(onsets) - 1) |->
             PeaksInCycle(pk, onsets[idx], onsets[idx + 1])]

\* A variant of the value that is defined from a single interval on.
P2TValueOneInterval(cycle, sr) ==
    LET RRis == Diff(cycle)
    IN IF Len(RRis) > 0 THEN Rat(SeqMax(RRis) - SeqMin(RRis), sr) ELSE NaN

\* The peak-to-trough value of one cycle: the R-R intervals are
\* np.diff(cycle) / sampling_rate.
P2TValue(cycle, sr) ==
    LET RRis == Diff(cycle)
    IN IF Len(RRis) > 1 THEN Rat(SeqMax(RRis) - SeqMin(RRis), sr) ELSE NaN

P2TValues(cycles, sr) == [i \in 1..Len(cycles) |-> P2TValue(cycles[i], sr)]

\* The entries of a value list that are not NaN (what pandas aggregates).
Defined(values) == SelectSeq(values, LAMBDA v : ~v.nan)

RECURSIVE SumNum(_)
SumNum(values) ==
    IF values = <<>> THEN 0 ELSE Head(values).num + SumNum(Tail(values))

\* pd.Series(values).mean(): NaN entries are skipped; NaN when none is left.
\* All values share the denominator sampling_rate.
SeriesMean(values, sr) ==
    LET d == Defined(values)
    IN IF d = <<>> THEN NaN ELSE Rat(SumNum(d), sr * Len(d))

\* np.log(mean), kept symbolic.
LogOf(m) == [fn |-> "log", nan |-> m.nan, num |-> m.num, den |-> m.den]

\* pd.Series(values).std() (ddof = 1), kept symbolic: NaN below 2 entries.
SeriesStd(values) ==
    LET d == Defined(values)
    IN [fn |-> "std", nan |-> Len(d) < 2, over |-> d]

\* len(values.index[values.isnull()])
CountNull(values) == Len(SelectSeq(values, LAMBDA v : v.nan))

\* The fields the peak-to-trough stage stores in rsa.
P2TFields(cycles, sr) ==
    LET values == P2TValues(cycles, sr)
    IN [RSA_P2T_Values |-> values,
        RSA_P2T_Mean |-> SeriesMean(values, sr),
        RSA_P2T_Mean_log |-> LogOf(SeriesMean(values, sr)),
        RSA_P2T_Variability |-> SeriesStd(values),
        RSA_P2T_NoRSA |-> CountNull(values)]

\* One stage of the Porges-Bohrer pipeline; rates in Hz, cut-offs in mHz,
\* 0 where the argument is absent or None.
Stage(name, rate_in, rate_out, lowcut, highcut) ==
    [stage |-> name, sampling_rate |-> rate_in,
     desired_sampling_rate |-> rate_out, lowcut |-> lowcut, highcut |-> highcut]

\* signal_resample(heart_period, sampling_rate=100, desired_sampling_rate=2)
ResampleCall(sr) == Stage("signal_resample", 100, 2, 0, 0)

\* The stages of the Porges-Bohrer method in program order.
PorgesBohrerStages(sr) ==
    <<ResampleCall(sr),
      Stage("signal_filter_savgol", 2, 0, 95, 0),
      Stage("signal_filter", 2, 0, 120, 400),
      Stage("epochs", 2, 0, 0, 0),
      Stage("log_variance", 0, 0, 0, 0)>>

\* signal_resample (outside the modelled files): the number of samples of a
\* signal of n samples at rate_in Hz once it is resampled at rate_out Hz, that
\* is n * rate_out / rate_in rounded to the nearest integer (a half goes to
\* the even neighbour).
ResampledLen(n, rate_in, rate_out) ==
    LET p == n * rate_out
        f == p \div rate_in
        r == p % rate_in
    IN IF 2 * r < rate_in THEN f
       ELSE IF 2 * r > rate_in THEN f + 1
       ELSE f + (f % 2)

\* Lines 122-125: the 'Epoch Index' of each sample of a signal of len samples
\* at 2 Hz: time = arange(len) / 2, index = time // 30.
EpochIndex(len) == [j \in 1..len |-> ((j - 1) \div 2) \div 30]

\* Lines 127-129: epochs[i] = time.loc[i] for i in range(max(index) + 1).  An
\* epoch is recorded by its number of rows.
Epochs(index) ==
    [i \in 1..(SeqMax(index) + 1) |->
        Cardinality({j \in 1..Len(index) : index[j] = i - 1})]

\* Lines 131-135: time.loc[i] of an epoch of one row is a Series instead of a
\* DataFrame, its var() a scalar, and pd.concat refuses a scalar.
ConcatFails(eps) == \E i \in 1..Len(eps) : eps[i] = 1

\* rsa["RSA_PorgesBohrer"], kept symbolic.
PorgesBohrerValue == [fn |-> "mean_log_var"]

EmptyRsa == <<>>

\* ----------------------------------------------------------------- Init

\* The state at the call of ecg_rsa(signals, rpeaks, sampling_rate).
InitEcgRsa(kind, cols, ph, co, given, pk, sr) ==
    /\ pc = "validate"
    /\ fn = "ecg_rsa"
    /\ inKind = kind
    /\ columns = cols
    /\ phase = IF COL_RSP_Phase \in cols THEN ph ELSE <<>>
    /\ completion = IF COL_RSP_PhaseCompletion \in cols THEN co ELSE <<>>
    /\ rpeaksGiven = given
    /\ rpeaks = IF given THEN pk ELSE <<>>
    /\ sampling_rate = sr
    /\ rsp_onsets = <<>>
    /\ expiration_onsets = <<>>
    /\ rsp_cycle_center = <<>>
    /\ warned = FALSE
    /\ cycles_rri = <<>>
    /\ rsa = EmptyRsa
    /\ calls = <<>>
    /\ epochs = <<>>
    /\ x = <<>>
    /\ x_at_call = <<>>
    /\ args = <<>>
    /\ figures = 0
    /\ ApEn = <<>>
    /\ r_evaluated = <<>>
    /\ ret = <<>>
    /\ outcome = "none"

\* The completion column of a regular recording with phase labels ph.
RegularCompletion(ph) ==
    [i \in 1..Len(ph) |-> IF i = 1 \/ ph[i] # ph[i - 1] THEN 0 ELSE 5]

\* Regular recordings with the usual columns, as bio_process() produces them.
InitRegular ==
    \E n \in 0..MaxLenRegular :
      \E ph \in [1..n -> Labels], pk \in SUBSET (0..(n - 1)),
         sr \in SamplingRates :
        InitEcgRsa("DataFrame", UsualColumns, ph, RegularCompletion(ph), TRUE,
                   SetToSeq(pk), sr)

\* Tables with the usual columns and arbitrary phase data.
InitUsual ==
    \E n \in 0..MaxLen :
      \E ph \in [1..n -> Labels], co \in [1..n -> Completions],
         pk \in SUBSET (0..(n - 1)), sr \in SamplingRates :
        InitEcgRsa("DataFrame", UsualColumns, ph, co, TRUE, SetToSeq(pk), sr)

\* Every other combination of columns and call form, on short tables.
InitOther ==
    \E n \in 0..MaxLenOther :
      \E kind \in {"DataFrame", "tuple"}, cols \in SUBSET ColumnNames,
         given \in BOOLEAN,
         ph \in [1..n -> Labels], co \in [1..n -> Completions],
         pk \in SUBSET (0..(n - 1)), sr \in SamplingRates :
        InitEcgRsa(kind, cols, ph, co, given, SetToSeq(pk), sr)

\* Long recordings.  Their lengths:
LongLens == {MaxLenLong \div 2, MaxLenLong}

\* the number of rows a breathing phase lasts:
HalfPeriods == {20, 25}

\* the row (one-based) at which the completion column restarts out of turn,
\* 0 for none:
Glitches == {0, 11, 31}

\* and the number of rows between two heart beats.
BeatSteps == {7, 10}

\* Phase labels of n rows in phases of half rows, the first with label first.
LongPhase(n, half, first) ==
    [i \in 1..n |-> IF ((i - 1) \div half) % 2 = 0 THEN first ELSE 1 - first]

\* R-peaks every step rows, every third beat one row late.
LongPeaks(n, step) ==
    [i \in 1..(n \div step) |-> (i - 1) * step + (IF i % 3 = 0 THEN 1 ELSE 0)]

\* The completion column co with an extra restart at row g.
Glitched(co, g) == [i \in 1..Len(co) |-> IF i = g THEN 0 ELSE co[i]]

InitLong ==
    \E n \in LongLens, half \in HalfPeriods, first \in Labels, g \in Glitches,
       step \in BeatSteps, sr \in SamplingRates :
      LET ph == LongPhase(n, half, first)
      IN InitEcgRsa("DataFrame", UsualColumns, ph,
                    Glitched(RegularCompletion(ph), g), TRUE,
                    LongPeaks(n, step), sr)

Init == InitRegular \/ InitUsual \/ InitOther \/ InitLong

\* -------------------------------------------------------------- actions

Raise(exc) ==
    /\ pc' = "done"
    /\ outcome' = exc

\* ecg_rsa, lines 53-66: the sanity checks.
Validate ==
    /\ UNCHANGED callVars
    /\ pc = "validate"
    /\ IF inKind = "tuple"
       THEN \* signals = signals[0]; signals[1] then looks up column 1
            Raise("KeyError")
       ELSE IF Cardinality(ColsContaining(columns, "RSP_Phase")) # 2
       THEN Raise("ValueError")
       ELSE IF Cardinality(ColsContaining(columns, "ECG_Rate")) = 0
       THEN Raise("ValueError")
       ELSE pc' = "extract" /\ UNCHANGED outcome
    /\ UNCHANGED <<fn, inKind, columns, phase, completion, rpeaksGiven, rpeaks,
                   sampling_rate, rsp_onsets, expiration_onsets,
                   rsp_cycle_center, warned, cycles_rri, rsa, calls, epochs>>

\* ecg_rsa, lines 68-73: the cycle extraction and the filter of the centers.
ExtractCycles ==
    /\ UNCHANGED callVars
    /\ pc = "extract"
    /\ IF ~rpeaksGiven
       THEN \* None["ECG_R_Peaks"]
            /\ Raise("TypeError")
            /\ UNCHANGED <<rsp_onsets, expiration_onsets, rsp_cycle_center>>
       ELSE IF ~({COL_RSP_Phase, COL_RSP_PhaseCompletion} \subseteq columns)
       THEN \* signals["RSP_Phase"] or signals["RSP_PhaseCompletion"]
            /\ Raise("KeyError")
            /\ UNCHANGED <<rsp_onsets, expiration_onsets, rsp_cycle_center>>
       ELSE LET rsp_cycles == EcgRsaCycles(phase, completion)
                onsets == rsp_cycles.RSP_Inspiration_Onsets
                exps == rsp_cycles.RSP_Expiration_Onsets
            IN /\ rsp_onsets' = onsets
               /\ expiration_onsets' = exps
               /\ IF onsets = <<>>
                  THEN \* line 72 has bound rsp_cycle_center to the expiration
                       \* onsets when line 73 fails on rsp_onsets[0] of an
                       \* empty array
                       /\ Raise("IndexError")
                       /\ rsp_cycle_center' = exps
                  ELSE /\ rsp_cycle_center' = FilterCenters(exps, onsets)
                       /\ pc' = "align"
                       /\ UNCHANGED outcome
    /\ UNCHANGED <<fn, inKind, columns, phase, completion, rpeaksGiven, rpeaks,
                   sampling_rate, warned, cycles_rri, rsa, calls, epochs>>

\* ecg_rsa, lines 75-78: the alignment of centers and onsets.
AlignCycles ==
    /\ UNCHANGED callVars
    /\ pc = "align"
    /\ rsp_cycle_center' = AlignCenters(rsp_cycle_center, rsp_onsets)
    /\ warned' = AlignmentUnclean(rsp_cycle_center', rsp_onsets)
    /\ pc' = "p2t"
    /\ UNCHANGED <<fn, inKind, columns, phase, completion, rpeaksGiven, rpeaks,
                   sampling_rate, rsp_onsets, expiration_onsets, cycles_rri,
                   rsa, calls, epochs, outcome>>

\* ecg_rsa, lines 80-105: the peak-to-trough algorithm.
PeakToTrough ==
    /\ UNCHANGED callVars
    /\ pc = "p2t"
    /\ cycles_rri' = CyclesRri(rpeaks, rsp_onsets)
    /\ rsa' = P2TFields(cycles_rri', sampling_rate)
    /\ pc' = "porges"
    /\ UNCHANGED <<fn, inKind, columns, phase, completion, rpeaksGiven, rpeaks,
                   sampling_rate, rsp_onsets, expiration_onsets,
                   rsp_cycle_center, warned, calls, epochs, outcome>>

\* ecg_rsa, lines 107-137: the Porges-Bohrer method and the return.
PorgesBohrer ==
    /\ UNCHANGED callVars
    /\ pc = "porges"
    /\ IF COL_ECG_Rate \notin columns
       THEN \* signals["ECG_Rate"]
            /\ Raise("KeyError")
            /\ UNCHANGED <<rsa, calls, epochs>>
       ELSE LET stages == PorgesBohrerStages(sampling_rate)
                \* signals["ECG_Rate"] has one value per row of the table
                heart_period == Len(phase)
                resampled == ResampledLen(heart_period,
                                          stages[1].sampling_rate,
                                          stages[1].desired_sampling_rate)
                \* the two filters and the subtraction keep the length
                zero_mean_filtered == resampled
            IN IF zero_mean_filtered = 0
               THEN \* line 128: np.max of an empty index
                    /\ Raise("ValueError")
                    /\ calls' = SubSeq(stages, 1, 3)
                    /\ UNCHANGED <<rsa, epochs>>
               ELSE /\ epochs' = Epochs(EpochIndex(zero_mean_filtered))
                    /\ IF ConcatFails(epochs')
                       THEN \* line 135: pd.concat of scalars
                            /\ Raise("TypeError")
                            /\ calls' = SubSeq(stages, 1, 4)
                            /\ UNCHANGED rsa
                       ELSE /\ calls' = stages
                            /\ rsa' = rsa @@
                                 [RSA_PorgesBohrer |-> PorgesBohrerValue]
                            /\ pc' = "done"
                            /\ outcome' = "returned"
    /\ UNCHANGED <<fn, inKind, columns, phase, completion, rpeaksGiven, rpeaks,
                   sampling_rate, rsp_onsets, expiration_onsets,
                   rsp_cycle_center, warned, cycles_rri>>

Next ==
    \/ Validate
    \/ ExtractCycles
    \/ AlignCycles
    \/ PeakToTrough
    \/ PorgesBohrer

Spec == Init /\ [][Next]_vars

\* ------------------------------------------------------------------ hdi

\* np.ceil(ci * len(x_sorted)).astype('int') for ci = num / CiDen.
WindowSize(num, n) == (num * n + CiDen - 1) \div CiDen

\* The list ciWidth: x_sorted[i + window_size] - x_sorted[i] for each i in
\* np.arange(0, nCIs).
CiWidth(x_sorted, window_size) ==
    LET nCIs == Len(x_sorted) - window_size
    IN [k \in 1..nCIs |-> x_sorted[k + window_size] - x_sorted[k]]

\* A variant of list.index(v) that finds the last occurrence of v.
LastIndexOf(s, v) ==
    CHOOSE i \in 1..Len(s) : s[i] = v /\ \A j \in (i + 1)..Len(s) : s[j] # v

\* list.index(v): the position (one-based here) of the first occurrence of v.
FirstIndexOf(s, v) ==
    CHOOSE i \in 1..Len(s) : s[i] = v /\ \A j \in 1..(i - 1) : s[j] # v

\* The pair hdi returns once the window widths are known.
HdiLimits(x_sorted, window_size) ==
    LET ciWidth == CiWidth(x_sorted, window_size)
        k == FirstIndexOf(ciWidth, SeqMin(ciWidth))
    IN <<x_sorted[k], x_sorted[k + window_size]>>

\* A routine of the library that takes a show argument (density,
\* complexity_delay, complexity_dimension, signal_psd) draws one figure when
\* show is true and none otherwise.
FiguresDrawn(show) == IF show THEN 1 ELSE 0

\* _hdi_plot: density(vals, show=False), then one figure of its own.
HdiPlotFigures == FiguresDrawn(FALSE) + 1

\* --------------------------------------------------------- complexity_r

\* str.lower() on the method names in use.
Lower(method) == IF method = "maxApEn" THEN "maxapen" ELSE method

\* np.arange(start, stop, step) on integers: ceil((stop - start) / step)
\* values start, start + step, ...
Arange(start, stop, step) ==
    [i \in 1..((stop - start + step - 1) \div step) |-> start + (i - 1) * step]

\* modulator = np.arange(0.02, 0.8, 0.02), in hundredths.
Modulator == Arange(2, 80, 2)

\* r_range = modulator * np.std(signal, ddof=1), in units of the standard
\* deviation of the signal.
RRange == [i \in 1..Len(Modulator) |-> Rat(Modulator[i], 100)]

\* 0.2 * np.std(signal, ddof=1), in the same units.
TraditionalR == Rat(20, 100)

\* The curves entropy_approximate may produce over a grid of n thresholds, as
\* ranks: a single peak at p, a plateau from p on, a plateau up to p, a rise
\* to p followed by a fall, and two equal peaks at p and at the last point.
EntropyProfiles(n) ==
    UNION {
        {[i \in 1..n |-> IF i = p THEN 2 ELSE 0],
         [i \in 1..n |-> IF i >= p THEN 2 ELSE 1],
         [i \in 1..n |-> IF i <= p THEN 2 ELSE 1],
         [i \in 1..n |-> IF i <= p THEN n - (p - i) ELSE n - (i - p)],
         [i \in 1..n |-> IF i = p \/ i = n THEN 2 ELSE 0]} : p \in 1..n}

\* A variant of argmax that returns the last position of the maximum.
ArgMaxLast(a) ==
    CHOOSE i \in 1..Len(a) :
        /\ \A j \in 1..Len(a) : a[j] <= a[i]
        /\ \A j \in (i + 1)..Len(a) : a[j] < a[i]

\* np.argmax(a): the first position (one-based here) of the maximum.
ArgMax(a) ==
    CHOOSE i \in 1..Len(a) :
        /\ \A j \in 1..Len(a) : a[j] <= a[i]
        /\ \A j \in 1..(i - 1) : a[j] < a[i]

\* The figures _optimize_r draws: complexity_delay is called without show,
\* complexity_dimension with show=True when dimension is unset, and when show
\* is True the ApEn curve is plotted with plt.title / plt.plot, which draw on
\* the current figure and open one only when there is none.  An unset
\* argument (None) is 0.
OptimizeRFigures(delay, dimension, show) ==
    LET opened == (IF delay = 0 THEN FiguresDrawn(FALSE) ELSE 0)
                    + (IF dimension = 0 THEN FiguresDrawn(TRUE) ELSE 0)
    IN IF show /\ opened = 0 THEN 1 ELSE opened

\* --------------------------------------------------------- signal_power

\* _signal_power_instant_plot: a pair of ints is wrapped into a list of one
\* band; a pair of floats is not, and indexing its first element fails.
PowerPlotFails(band) == band = "float_pair"

\* The figures _signal_power_instant draws: signal_psd(show=False), then the
\* plot of the bands when show is true.
PowerInstantFigures(show) == FiguresDrawn(FALSE) + (IF show THEN 1 ELSE 0)

\* _signal_power_continuous_get, lines 150-155: the first band processed
\* imports mne, and the function raises ImportError when the import fails.
\* Every band form reaches this call (lines 139-143) before anything else.
PowerContinuousFails(mne_installed) == ~mne_installed

\* ------------------------------------------------- hdi and the others: Init

\* The ecg_rsa variables of a call of another function.
IdleEcg ==
    /\ inKind = "none"
    /\ columns = {}
    /\ phase = <<>>
    /\ completion = <<>>
    /\ rpeaksGiven = FALSE
    /\ rpeaks = <<>>
    /\ sampling_rate = 0
    /\ rsp_onsets = <<>>
    /\ expiration_onsets = <<>>
    /\ rsp_cycle_center = <<>>
    /\ warned = FALSE
    /\ cycles_rri = <<>>
    /\ rsa = EmptyRsa
    /\ calls = <<>>
    /\ epochs = <<>>

\* The state at the call of function f on array a with arguments ar.
InitCall(f, a, ar) ==
    /\ pc = "call"
    /\ fn = f
    /\ x = a
    /\ x_at_call = a
    /\ args = ar
    /\ figures = 0
    /\ ApEn = <<>>
    /\ r_evaluated = <<>>
    /\ ret = <<>>
    /\ outcome = "none"
    /\ IdleEcg

Samples(maxLen) == UNION {[1..n -> Values] : n \in 0..maxLen}

InitHdi ==
    \E a \in Samples(MaxN) \cup {ExampleSample} :
      \E num \in 1..CiDen, show \in BOOLEAN :
        InitCall("hdi", a, [ci |-> num, show |-> show])

InitComplexityR ==
    \E a \in Samples(MaxSignalLen) :
      \E method \in Methods, delay \in {0, 1}, dimension \in {0, 2},
         show \in BOOLEAN :
        InitCall("complexity_r", a,
                 [method |-> method, delay |-> delay, dimension |-> dimension,
                  show |-> show])

\* mne_installed is the one fact about the interpreter the call depends on:
\* whether `import mne` (line 151) succeeds.
InitSignalPower ==
    \E a \in Samples(MaxSignalLen) :
      \E band \in BandForms, continuous \in BOOLEAN, show \in BOOLEAN,
         mne_installed \in BOOLEAN :
        InitCall("signal_power", a,
                 [band |-> band, continuous |-> continuous, show |-> show,
                  mne_installed |-> mne_installed])

InitCalls == InitHdi \/ InitComplexityR \/ InitSignalPower

\* ---------------------------------------------- hdi and the others: actions

\* hdi, lines 35-52.
Hdi ==
    /\ pc = "call"
    /\ fn = "hdi"
    /\ pc' = "done"
    /\ LET x_sorted == Sort(x)
           window_size == WindowSize(args.ci, Len(x_sorted))
       IN IF window_size < 2
          THEN outcome' = "ValueError" /\ UNCHANGED <<ret, figures>>
          ELSE IF Len(x_sorted) - window_size <= 0
          THEN \* np.min of the empty list ciWidth
               outcome' = "ValueError_zero_size" /\ UNCHANGED <<ret, figures>>
          ELSE /\ ret' = HdiLimits(x_sorted, window_size)
               /\ figures' = figures + (IF args.show THEN HdiPlotFigures ELSE 0)
               /\ outcome' = "returned"
    /\ UNCHANGED <<fn, x, x_at_call, args, ApEn, r_evaluated>>
    /\ UNCHANGED ecgVars

\* complexity_r, lines 48-54, with _optimize_r, lines 60-84.
ComplexityR ==
    /\ pc = "call"
    /\ fn = "complexity_r"
    /\ pc' = "done"
    /\ LET method == Lower(args.method)
       IN IF method \in {"traditional"}
          THEN /\ ret' = TraditionalR
               /\ outcome' = "returned"
               /\ UNCHANGED <<figures, ApEn, r_evaluated>>
          ELSE IF method \in {"maxapen", "optimize"}
          THEN \* the loop of lines 72-73 calls entropy_approximate once per
               \* element of r_range, then line 75 selects
               \E profile \in EntropyProfiles(Len(RRange)) :
                  /\ r_evaluated' = RRange
                  /\ ApEn' = profile
                  /\ ret' = RRange[ArgMax(profile)]
                  /\ figures' = figures
                       + OptimizeRFigures(args.delay, args.dimension, args.show)
                  /\ outcome' = "returned"
          ELSE \* r is never bound
               /\ outcome' = "UnboundLocalError"
               /\ UNCHANGED <<ret, figures, ApEn, r_evaluated>>
    /\ UNCHANGED <<fn, x, x_at_call, args>>
    /\ UNCHANGED ecgVars

\* signal_power, lines 64-71, with _signal_power_instant, lines 79-91,
\* _signal_power_instant_plot, lines 105-130, _signal_power_continuous, lines
\* 136-144, and _signal_power_continuous_get, lines 148-165.
SignalPower ==
    /\ pc = "call"
    /\ fn = "signal_power"
    /\ pc' = "done"
    /\ IF args.continuous = FALSE
       THEN IF args.show
            THEN IF PowerPlotFails(args.band)
                 THEN outcome' = "TypeError" /\ UNCHANGED <<ret, figures>>
                 ELSE /\ figures' = figures + PowerInstantFigures(TRUE)
                      /\ ret' = <<"DataFrame">>
                      /\ outcome' = "returned"
            ELSE /\ figures' = figures + PowerInstantFigures(FALSE)
                 /\ ret' = <<"DataFrame">>
                 /\ outcome' = "returned"
       ELSE IF PowerContinuousFails(args.mne_installed)
            THEN outcome' = "ImportError" /\ UNCHANGED <<ret, figures>>
            ELSE /\ ret' = <<"DataFrame">>
                 /\ outcome' = "returned"
                 /\ UNCHANGED figures
    /\ UNCHANGED <<fn, x, x_at_call, args, ApEn, r_evaluated>>
    /\ UNCHANGED ecgVars

NextCalls ==
    \/ Hdi
    \/ ComplexityR
    \/ SignalPower

SpecCalls == InitCalls /\ [][NextCalls]_vars

\* ------------------------------------------------- ecg_rsa: properties

\* The inspiration and expiration onsets of the table, as the claims define
\* them: the samples labelled 1 (resp. 0) whose completion is 0.
InspSet ==
    {i \in 0..(Len(phase) - 1) :
        i < Len(completion) /\ phase[i + 1] = 1 /\ completion[i + 1] = 0}

ExpSet ==
    {i \in 0..(Len(phase) - 1) :
        i < Len(completion) /\ phase[i + 1] = 0 /\ completion[i + 1] = 0}

\* s lists exactly the elements of S in strictly increasing order.
Enumerates(s, S) ==
    /\ Len(s) = Cardinality(S)
    /\ Range(s) = S
    /\ \A i \in 1..(Len(s) - 1) : s[i] < s[i + 1]

\* The table fails the column check of ecg_rsa.
BadTable ==
    \/ Cardinality({c \in columns : NameContains(c, "RSP_Phase")}) # 2
    \/ {c \in columns : NameContains(c, "ECG_Rate")} = {}

\* Positions of the call of ecg_rsa.
EcgDone == fn = "ecg_rsa" /\ pc = "done"

P2TComputed == fn = "ecg_rsa" /\ "RSA_P2T_Values" \in DOMAIN rsa

CyclesExtracted ==
    /\ fn = "ecg_rsa"
    /\ \/ pc \in {"align", "p2t", "porges"}
       \/ pc = "done" /\ (outcome \in {"IndexError", "returned"} \/ P2TComputed)

Aligned ==
    /\ fn = "ecg_rsa"
    /\ \/ pc \in {"p2t", "porges"}
       \/ pc = "done" /\ P2TComputed

ResultFields ==
    {"RSA_P2T_Values", "RSA_P2T_Mean", "RSA_P2T_Mean_log",
     "RSA_P2T_Variability", "RSA_P2T_NoRSA", "RSA_PorgesBohrer"}

\* A usual call: a DataFrame with the columns ecg_rsa reads, and R-peaks.
UsualCall ==
    /\ fn = "ecg_rsa"
    /\ inKind = "DataFrame"
    /\ rpeaksGiven
    /\ ~BadTable
    /\ UsualColumns \subseteq columns

\* C1: a call whose table does not have exactly 2 columns containing
\* 'RSP_Phase', or has no column containing 'ECG_Rate', ends with the
\* missing-column error (the ValueError of the sanity checks), with nothing
\* computed and no result record.
C1_BadTableRejected ==
    (EcgDone /\ BadTable) =>
        /\ outcome = "ValueError"
        /\ rsa = EmptyRsa
        /\ calls = <<>>
        /\ rsp_onsets = <<>>

\* C2: when the table has no inspiration onset or no expiration onset, a
\* usual call returns a record with an empty value sequence and undefined
\* aggregates instead of failing.
C2_ZeroOnsetsReturnEmpty ==
    (EcgDone /\ UsualCall /\ (InspSet = {} \/ ExpSet = {})) =>
        /\ outcome = "returned"
        /\ rsa.RSA_P2T_Values = <<>>
        /\ rsa.RSA_P2T_Mean.nan
        /\ rsa.RSA_P2T_Variability.nan

\* The R-peaks of the k-th cycle, between the k-th and (k+1)-th inspiration
\* onset (first included, second excluded).
CyclePeaks(k) ==
    LET on == SetToSeq(InspSet)
    IN {p \in Range(rpeaks) : on[k] <= p /\ p < on[k + 1]}

\* The intervals between neighbouring R-peaks of a set of R-peaks.
Gaps(S) ==
    {q - p : <<p, q>> \in
        {pq \in S \X S :
            pq[1] < pq[2] /\ ~\E r \in S : pq[1] < r /\ r < pq[2]}}

SetMax(S) == CHOOSE v \in S : \A w \in S : w <= v

SetMin(S) == CHOOSE v \in S : \A w \in S : v <= w

NumCycles == Cardinality(InspSet) - 1

\* C3: once the peak-to-trough stage has run there is one value per pair of
\* consecutive inspiration onsets; the value of a cycle is (longest interval -
\* shortest interval) / sampling_rate over the R-peaks p with
\* cycle_init <= p < cycle_end when these give at least 2 intervals, and NaN
\* otherwise; no R-peak belongs to two cycles.
C3_PeakToTroughValues ==
    P2TComputed =>
        /\ Len(rsa.RSA_P2T_Values) = NumCycles
        /\ Len(cycles_rri) = NumCycles
        /\ \A k \in 1..NumCycles :
              /\ Range(cycles_rri[k]) = CyclePeaks(k)
              /\ IF Cardinality(CyclePeaks(k)) >= 3
                 THEN rsa.RSA_P2T_Values[k] =
                        [nan |-> FALSE,
                         num |-> SetMax(Gaps(CyclePeaks(k)))
                                   - SetMin(Gaps(CyclePeaks(k))),
                         den |-> sampling_rate]
                 ELSE rsa.RSA_P2T_Values[k].nan
        /\ \A p \in Range(rpeaks) :
              Cardinality({k \in 1..NumCycles : p \in Range(cycles_rri[k])}) <= 1

C3_Witness ==
    /\ P2TComputed
    /\ \E k \in 1..Len(rsa.RSA_P2T_Values) :
          /\ ~rsa.RSA_P2T_Values[k].nan
          /\ rsa.RSA_P2T_Values[k].num > 0
          /\ Cardinality(Range(rpeaks)) > Len(cycles_rri[k])

\* C4 as stated: the undefined-cycle count equals the number of cycles with
\* fewer than 2 R-peaks.
C4_NoRsaCountsBelowTwoPeaks ==
    P2TComputed =>
        rsa.RSA_P2T_NoRSA =
            Cardinality({k \in 1..NumCycles : Cardinality(CyclePeaks(k)) < 2})

\* C4, amended: the undefined-cycle count equals the number of cycles with
\* fewer than 2 R-R intervals, that is, fewer than 3 R-peaks.
C4_NoRsaCountsBelowThreePeaks ==
    P2TComputed =>
        rsa.RSA_P2T_NoRSA =
            Cardinality({k \in 1..NumCycles : Cardinality(CyclePeaks(k)) < 3})

C4_Witness ==
    /\ P2TComputed
    /\ \E k \in 1..NumCycles : Cardinality(CyclePeaks(k)) = 2
    /\ \E k \in 1..NumCycles : Cardinality(CyclePeaks(k)) >= 3
    /\ rsa.RSA_P2T_NoRSA >= 1

\* The expiration onsets strictly after the first inspiration onset.
KeptExp == {e \in ExpSet : e > SetMin(InspSet)}

\* C5: the filter keeps exactly the expiration onsets strictly greater than
\* the first inspiration onset; the alignment drops the last of them when
\* their number equals the number N of inspiration onsets (leaving N - 1),
\* and leaves them unchanged otherwise.
C5_CycleAlignment ==
    /\ (fn = "ecg_rsa" /\ pc = "align") => Enumerates(rsp_cycle_center, KeptExp)
    /\ Aligned =>
          IF Cardinality(KeptExp) = Cardinality(InspSet)
          THEN /\ Enumerates(rsp_cycle_center, KeptExp \ {SetMax(KeptExp)})
               /\ Len(rsp_cycle_center) = Cardinality(InspSet) - 1
          ELSE Enumerates(rsp_cycle_center, KeptExp)

C5_Witness ==
    /\ Aligned
    /\ Cardinality(KeptExp) = Cardinality(InspSet)
    /\ Cardinality(KeptExp) >= 2
    /\ KeptExp # ExpSet

\* C6: the alignment message is printed exactly when, after the adjustment,
\* (number of cycle centers) - (number of inspiration onsets) is not -1; it
\* is never printed before the alignment; and it is not fatal: a call that
\* printed it goes on and returns the complete record (the peak-to-trough
\* fields and the Porges-Bohrer scalar).
C6_WarningNonFatal ==
    /\ Aligned => (warned <=> Len(rsp_cycle_center) - Len(rsp_onsets) # -1)
    /\ (fn = "ecg_rsa" /\ ~Aligned) => ~warned
    /\ (EcgDone /\ Aligned /\ warned) =>
          /\ outcome = "returned"
          /\ DOMAIN rsa = ResultFields

\* C7: _ecg_rsa_cycles returns as inspiration onsets exactly the samples with
\* label 1 and completion 0, and as expiration onsets exactly the samples
\* with label 0 and completion 0; both are strictly increasing, inside
\* 0..len-1, and disjoint.
C7_OnsetsExact ==
    CyclesExtracted =>
        /\ Enumerates(rsp_onsets, InspSet)
        /\ Enumerates(expiration_onsets, ExpSet)
        /\ Range(rsp_onsets) \subseteq 0..(Len(phase) - 1)
        /\ Range(expiration_onsets) \subseteq 0..(Len(phase) - 1)
        /\ Range(rsp_onsets) \cap Range(expiration_onsets) = {}

C7_Witness ==
    /\ CyclesExtracted
    /\ Len(rsp_onsets) >= 2
    /\ Len(expiration_onsets) >= 1
    /\ \E i \in 1..Len(phase) : phase[i] = 1 /\ completion[i] # 0
    /\ \E i \in 1..Len(phase) : phase[i] = 0 /\ completion[i] # 0

\* C9: in every call that returns, the resampling routine is handed the
\* sampling_rate argument as input rate and 2 as target rate, and resampling
\* comes before the trend filter, the band-pass filter and the epochs.
C9_ResampleFromNativeRate ==
    (EcgDone /\ outcome = "returned") =>
        /\ Len(calls) >= 4
        /\ calls[1].stage = "signal_resample"
        /\ calls[1].sampling_rate = sampling_rate
        /\ calls[1].desired_sampling_rate = 2
        /\ \A i \in 2..Len(calls) : calls[i].stage # "signal_resample"

\* ------------------------------------------------------- hdi: properties

HdiDone == fn = "hdi" /\ pc = "done"

\* The k-th smallest element of x (k = 1 for the smallest).
Ranked(k) ==
    CHOOSE v \in Range(x) :
        /\ Cardinality({j \in 1..Len(x) : x[j] < v}) < k
        /\ k <= Cardinality({j \in 1..Len(x) : x[j] <= v})

\* w = ceil(ci * N).
HdiW ==
    CHOOSE w \in 0..Len(x) :
        /\ w * CiDen >= args.ci * Len(x)
        /\ (w - 1) * CiDen < args.ci * Len(x)

\* The pair <<low, high>> is the first narrowest window among the windows
\* that start at the k-th smallest point, k in 1..last, and span `points`
\* consecutive sorted points.
FirstNarrowest(low, high, points, last) ==
    \E i \in 1..last :
        /\ low = Ranked(i)
        /\ high = Ranked(i + points - 1)
        /\ \A j \in 1..last :
              /\ Ranked(i + points - 1) - Ranked(i)
                    <= Ranked(j + points - 1) - Ranked(j)
              /\ j < i =>
                    Ranked(i + points - 1) - Ranked(i)
                        < Ranked(j + points - 1) - Ranked(j)

\* C8 as stated: hdi returns the first and last value of the first narrowest
\* window of exactly w = ceil(ci * N) consecutive sorted points.
C8_WindowOfWPoints ==
    (HdiDone /\ outcome = "returned") =>
        FirstNarrowest(ret[1], ret[2], HdiW, Len(x) - HdiW + 1)

\* C8, amended: when 2 <= w < N, hdi returns the first and last value of the
\* first narrowest window of w + 1 consecutive sorted points, that is
\* (sorted[i], sorted[i + w]) for the smallest i in 0..N-w-1 of minimal
\* width; in every other case it returns nothing and raises.
C8_WindowOfWPlusOnePoints ==
    HdiDone =>
        /\ outcome = "returned" <=> (2 <= HdiW /\ HdiW < Len(x))
        /\ outcome = "returned" =>
              FirstNarrowest(ret[1], ret[2], HdiW + 1, Len(x) - HdiW)

\* A returned window that is not the first candidate and ties with a later one.
C8_Witness ==
    /\ HdiDone
    /\ outcome = "returned"
    /\ ret[1] # Ranked(1)
    /\ \E i, j \in 1..(Len(x) - HdiW) :
          /\ i < j
          /\ ret[1] = Ranked(i)
          /\ Ranked(i) # Ranked(j)
          /\ Ranked(i + HdiW) - Ranked(i) = Ranked(j + HdiW) - Ranked(j)

\* -------------------------------------------------- plotting: properties

\* C10: a call of complexity_r, hdi or signal_power with show=False draws no
\* figure, and no call changes the array it was given.
C10_NoFigureUnlessShown ==
    (fn \in {"complexity_r", "hdi", "signal_power"} /\ pc = "done") =>
        /\ ~args.show => figures = 0
        /\ x = x_at_call

\* ------------------------------------------------ complexity_r: properties

\* The grid of the claim: k * 0.02 times the standard deviation of the signal,
\* for the integers k with 0.02 <= k * 0.02 < 0.8.
ClaimGrid ==
    {[nan |-> FALSE, num |-> 2 * k, den |-> 100] :
        k \in {j \in 0..100 : 2 <= 2 * j /\ 2 * j < 80}}

\* The approximate entropy that was computed for the threshold r.
ApEnAt(r) == ApEn[CHOOSE i \in 1..Len(r_evaluated) : r_evaluated[i] = r]

OptimizeRDone ==
    /\ fn = "complexity_r"
    /\ pc = "done"
    /\ args.method \in {"maxApEn", "optimize"}

\* C11: complexity_r with method 'maxApEn' or 'optimize' returns an element r
\* of the grid whose approximate entropy is at least that of every grid value
\* and strictly above that of every smaller grid value, and approximate
\* entropy has been evaluated exactly once for every grid value.
C11_MaxApEnOverGrid ==
    OptimizeRDone =>
        /\ outcome = "returned"
        /\ ret \in ClaimGrid
        /\ Len(r_evaluated) = Cardinality(ClaimGrid)
        /\ Range(r_evaluated) = ClaimGrid
        /\ Len(ApEn) = Len(r_evaluated)
        /\ \A g \in ClaimGrid :
              /\ ApEnAt(ret) >= ApEnAt(g)
              /\ g.num < ret.num => ApEnAt(g) < ApEnAt(ret)

\* The maximum is attained by several grid values and not by the smallest one.
C11_Witness ==
    /\ OptimizeRDone
    /\ outcome = "returned"
    /\ ret.num > 2
    /\ \E g \in ClaimGrid : g.num > ret.num /\ ApEnAt(g) = ApEnAt(ret)
    /\ \E g \in ClaimGrid : g.num < ret.num /\ ApEnAt(g) > 0

\* --------------------------------------------- hdi: rejection and return

\* C12: hdi raises its own ValueError exactly when the window size
\* ceil(ci * N) is below 2, and for every other input with 0 < ci <= 1
\* (ceil(ci * N) = N included) it returns a pair (low, high) of elements of
\* x with low <= high.
C12_RejectsOnlySmallWindows ==
    HdiDone =>
        /\ outcome = "ValueError" <=> HdiW < 2
        /\ HdiW >= 2 =>
              /\ outcome = "returned"
              /\ ret[1] \in Range(x)
              /\ ret[2] \in Range(x)
              /\ ret[1] <= ret[2]

====
